---------------------------- MODULE Spec2Model ----------------------------
(* The product-catalog demo application of the Angular tutorial:          *)
(*   - SortPipe (sort.pipe.ts), the `sort` pipe of the product list;       *)
(*   - NumericDirective (numeric.directive.ts), the keystroke filter;      *)
(*   - ProductListComponent / ProductDetailComponent, the parent and the   *)
(*     child component with their bindings and lifecycle hooks.            *)
(* Strings that the code compares with `<` or reads with charCodeAt are    *)
(* sequences of UTF-16 code units.                                         *)
EXTENDS Integers, Sequences, FiniteSets

VARIABLES
  \* ---- SortPipe: one call of transform(value, args)
  value,            \* the array object handed to the pipe, or null / undefined
  args,             \* the pipe parameter, or "undefined" when the template gives none
  result,           \* what transform returned ("none" before the call)
  given,            \* the argument `value` as it was when transform was called
  \* ---- NumericDirective on an <input appNumeric>
  currentClass,     \* @HostBinding('class') currentClass
  lastKey,          \* event.key of the keypress handled last
  defaultPrevented, \* whether the handler called event.preventDefault() on it
  keypresses,       \* number of keypress events handled
  inputValue,       \* the text of the <input> element
  \* ---- ProductListComponent (the parent)
  products,         \* products: Product[], as references to product objects
  selectedProduct,  \* selectedProduct: Product | undefined
  alerts,           \* the titles onAdded has reported with alert()
  \* ---- ProductDetailComponent (the child)
  product,          \* the value of the input signal product()
  added,            \* the payloads the output `added` has emitted
  log,              \* the console.log calls of the constructor and the hooks
  changes,          \* the SimpleChange objects ngOnChanges was called with
  inits,            \* number of ngOnInit calls
  rendered,         \* what the view shows inside @if (product()): a title, or nothing
  \* ---- the host framework's dispatch
  pc,               \* "new", "constructed", "idle" (waiting for an event), "dirty"
  lastEvent,        \* the event handled last: "none", "select", "addToCart"
  events,           \* number of DOM events handled
  detailDirty,      \* the child's view is marked for check
  detailChecked,    \* the last change-detection pass refreshed the child's view
  \* ---- the product list's template and its `sort` pipe
  productsRef,      \* identity of the array object `products` refers to
  objects,          \* number of product objects created so far
  pure,             \* the `pure` property of the @Pipe decorator
  pipeRuns,         \* number of executions of SortPipe.transform by the template
  pipeInput,        \* identity of the array the pipe was executed on last (0: none)
  listView,         \* what the list's view shows: the @if and the @for blocks
  clicked,          \* the product of the list item clicked last
  \* ---- lifecycle of the views
  onDestroyCallbacks, \* callbacks registered with the child's DestroyRef
  destroyLog,       \* destroy hooks of the child called so far
  afterViewInit,    \* what the parent's ngAfterViewInit read, or NotCalled
  \* ---- the JavaScript snippets of the language chapter
  qty,              \* the variable `qty` the quantity statements read
  quantity,         \* `quantity` of the ternary statement, or NotCalled
  quantityRewritten, \* `quantity` of the nullish coalescing statement, or NotCalled
  x,                \* the bindings named x, by the scope that holds them
  stmt,             \* the statement of the `var x` snippet to run next
  instance,         \* the object made by `new User(...)` or `new Customer(...)`
  ctorArgs,         \* the arguments that `new` expression was given
  fullname,         \* what the last call of getFullname() returned, or NotCalled
  active,           \* what the last read of the `active` accessor gave, or NotCalled
  \* ---- the @if / @else if / @else template on its own
  length,           \* products.length of the array the template is given
  sections          \* the sections of the chain that are rendered, or NotRenderedYet

pipeVars == <<value, args, result, given>>
numericVars == <<currentClass, lastKey, defaultPrevented, keypresses, inputValue>>
listVars == <<products, selectedProduct, alerts>>
detailVars == <<product, added, log, changes, inits, rendered>>
hostVars == <<pc, lastEvent, events, detailDirty, detailChecked>>
tplVars == <<productsRef, objects, pure, pipeRuns, pipeInput, listView, clicked>>
lifeVars == <<onDestroyCallbacks, destroyLog, afterViewInit>>
appVars == <<listVars, detailVars, hostVars, tplVars, lifeVars>>
snippetVars == <<qty, quantity, quantityRewritten, x, stmt>>
classVars == <<instance, ctorArgs, fullname, active>>
langVars == <<snippetVars, classVars>>
ifVars == <<length, sections>>
vars == <<pipeVars, numericVars, appVars, langVars, ifVars>>

(***************************************************************************)
(* Bounds of the model                                                     *)
(***************************************************************************)
MaxLen == 3        \* longest array handed to the pipe
MaxKeypresses == 3 \* keypress events handled by one directive instance
MaxEvents == 4     \* clicks handled by the product list and the product detail
MaxProducts == 101 \* longest products array the @if chain is rendered for

(***************************************************************************)
(* Product records (product.ts)                                            *)
(***************************************************************************)
\* 'K', 'Ke', 'T': a proper prefix and a different first character
Titles == {<<75>>, <<75, 101>>, <<84>>}
Prices == {35, 100}
Ids == {1, 2}

Product == [id : Ids, title : Titles, price : Prices]

\* keyof Product
KeyofProduct == {"id", "title", "price", "categories"}

BoundedSeq(S, n) == UNION {[1..k -> S] : k \in 0..n}

\* Values a template can hand to the pipe: an array object, null or undefined.
ArrayOf(items) == [tag |-> "array", ref |-> 1, items |-> items]
Null == [tag |-> "null", ref |-> 0, items |-> <<>>]
Undefined == [tag |-> "undefined", ref |-> 0, items |-> <<>>]
TypeError == [tag |-> "TypeError", ref |-> 0, items |-> <<>>]
NotCalled == [tag |-> "none", ref |-> 0, items |-> <<>>]
\* the array literal [] of `return [];`, a new array object
EmptyArray == [tag |-> "array", ref |-> 2, items |-> <<>>]

(***************************************************************************)
(* SortPipe                                                                *)
(***************************************************************************)
Min(a, b) == IF a < b THEN a ELSE b

\* s < t on strings: code units are compared left to right, and a proper
\* prefix is less than the longer string.
RECURSIVE StrLessFrom(_, _, _)
StrLessFrom(s, t, i) ==
  IF i > Min(Len(s), Len(t)) THEN Len(s) < Len(t)
  ELSE IF s[i] < t[i] THEN TRUE
  ELSE IF t[i] < s[i] THEN FALSE
  ELSE StrLessFrom(s, t, i + 1)

StrLess(s, t) == StrLessFrom(s, t, 1)

\* a[key] < b[key]: numbers by value, strings by code units; two categories
\* objects both convert to "[object Object]", so neither is less.
Less(a, b, key) ==
  CASE key = "title" -> StrLess(a.title, b.title)
    [] key = "price" -> a.price < b.price
    [] key = "id" -> a.id < b.id
    [] OTHER -> FALSE

\* The comparator of the first version of the pipe: by title only.
compareTitle(a, b) ==
  IF StrLess(a.title, b.title) THEN -1
  ELSE IF StrLess(b.title, a.title) THEN 1
  ELSE 0

compareAlwaysGreater(a, b, key) == 1

compareNeverEqual(a, b, key) == IF Less(a, b, key) THEN -1 ELSE 1

compareDescending(a, b, key) ==
  IF Less(a, b, key) THEN 1
  ELSE IF Less(b, a, key) THEN -1
  ELSE 0

\* The comparator of the parameterised pipe.
compare(a, b, key) ==
  IF Less(a, b, key) THEN -1
  ELSE IF Less(b, a, key) THEN 1
  ELSE 0

\* Array.prototype.sort with a comparator: a stable sort.  x goes right
\* after the last element that does not compare greater than it.
RECURSIVE InsertTitle(_, _)
InsertTitle(s, e) ==
  IF s = <<>> THEN <<e>>
  ELSE IF compareTitle(s[Len(s)], e) > 0
    THEN Append(InsertTitle(SubSeq(s, 1, Len(s) - 1), e), s[Len(s)])
    ELSE Append(s, e)

RECURSIVE SortTitle(_)
SortTitle(s) ==
  IF s = <<>> THEN <<>>
  ELSE InsertTitle(SortTitle(SubSeq(s, 1, Len(s) - 1)), s[Len(s)])

RECURSIVE Insert(_, _, _)
Insert(s, e, key) ==
  IF s = <<>> THEN <<e>>
  ELSE IF compare(s[Len(s)], e, key) > 0
    THEN Append(Insert(SubSeq(s, 1, Len(s) - 1), e, key), s[Len(s)])
    ELSE Append(s, e)

RECURSIVE Sort(_, _)
Sort(s, key) ==
  IF s = <<>> THEN <<>>
  ELSE Insert(Sort(SubSeq(s, 1, Len(s) - 1), key), s[Len(s)], key)

\* `if (value)`: null and undefined are falsy, every array (also []) is truthy.
Truthy(v) == v.tag = "array"

\* transform(value, ...args) of the first version: sorts by title.
transformTitle(v) ==
  IF Truthy(v) THEN [v EXCEPT !.items = SortTitle(v.items)]
  ELSE EmptyArray

DefaultArgsId(a) == IF a = "undefined" THEN "id" ELSE a

\* `args: keyof Product = 'title'`: the default stands in for undefined.
DefaultArgs(a) == IF a = "undefined" THEN "title" ELSE a

transformCopy(v, a) ==
  IF Truthy(v) THEN [tag |-> "array", ref |-> 3, items |-> Sort(v.items, DefaultArgs(a))]
  ELSE EmptyArray

transformUnguarded(v, a) ==
  IF Truthy(v) THEN [v EXCEPT !.items = Sort(v.items, DefaultArgs(a))]
  ELSE TypeError

\* transform(value, args = 'title') of the parameterised pipe.  sort works
\* in place and returns the array it was called on.
transform(v, a) ==
  IF Truthy(v) THEN [v EXCEPT !.items = Sort(v.items, DefaultArgs(a))]
  ELSE EmptyArray

(***************************************************************************)
(* NumericDirective                                                        *)
(***************************************************************************)
NaN == -1

\* event.key values: '' , TAB, U+001F, ' ', '/', '0', '5', '9', ':', 'a',
\* 'E', and the named key 'Enter'.
Keys ==
  {<<>>, <<9>>, <<31>>, <<32>>, <<47>>, <<48>>, <<53>>, <<57>>, <<58>>, <<97>>,
   <<69>>, <<69, 110, 116, 101, 114>>}

CharCodeOfCharacter(key) == IF Len(key) = 1 THEN key[1] ELSE NaN

\* key.charCodeAt(0): NaN for the empty string
CharCodeAt0(key) == IF Len(key) = 0 THEN NaN ELSE key[1]

\* charCode > 31 && (charCode < 48 || charCode > 57); every comparison with
\* NaN is false.
Rejects(charCode) ==
  /\ charCode # NaN
  /\ charCode > 31
  /\ (charCode < 48 \/ charCode > 57)

\* the pressed key is one of the digits '0'..'9'
IsDigitKey(key) == Len(key) = 1 /\ key[1] >= 48 /\ key[1] <= 57

\* The default action of a keypress that was not cancelled: the <input>
\* takes the character of a printable key; a cancelled keypress leaves the
\* element as it was.
DefaultAction(key, prevented) ==
  IF ~prevented /\ Len(key) = 1 /\ key[1] > 31
    THEN Append(inputValue, key[1])
    ELSE inputValue

onKeyPressWithoutElse(key) ==
  /\ keypresses < MaxKeypresses
  /\ lastKey' = key
  /\ keypresses' = keypresses + 1
  /\ IF Rejects(CharCodeAt0(key))
       THEN currentClass' = "invalid" /\ defaultPrevented' = TRUE
       ELSE currentClass' = currentClass /\ defaultPrevented' = FALSE
  /\ inputValue' = DefaultAction(key, defaultPrevented')

onKeyPress(key) ==
  /\ keypresses < MaxKeypresses
  /\ lastKey' = key
  /\ keypresses' = keypresses + 1
  /\ IF Rejects(CharCodeAt0(key))
       THEN currentClass' = "invalid" /\ defaultPrevented' = TRUE
       ELSE currentClass' = "valid" /\ defaultPrevented' = FALSE
  /\ inputValue' = DefaultAction(key, defaultPrevented')

(***************************************************************************)
(* The product catalog of ProductListComponent                             *)
(***************************************************************************)
\* A product object of the catalog, by reference (its index in Catalog).
ObjRef(n) == [tag |-> "object", ref |-> n, items |-> <<>>]

\* products: Product[] = [ Keyboard, Microphone, Web camera, Tablet ]
Catalog ==
  << [id |-> 1, title |-> <<75, 101, 121, 98, 111, 97, 114, 100>>, price |-> 100],
     [id |-> 2, title |-> <<77, 105, 99, 114, 111, 112, 104, 111, 110, 101>>,
      price |-> 35],
     [id |-> 3, title |-> <<87, 101, 98, 32, 99, 97, 109, 101, 114, 97>>, price |-> 79],
     [id |-> 4, title |-> <<84, 97, 98, 108, 101, 116>>, price |-> 500] >>

\* the product appended by `[...this.products, { id: 5, title: 'Headphones', ... }]`
Headphones ==
  [id |-> 5, title |-> <<72, 101, 97, 100, 112, 104, 111, 110, 101, 115>>, price |-> 55]

\* the record of the product object with reference r
ProductAt(r) == IF r \in DOMAIN Catalog THEN Catalog[r] ELSE Headphones

\* p.title of a product object
TitleOf(p) == ProductAt(p.ref).title

\* products: Product[] = [] of the first version of the list, and the catalog
InitialProducts == {<<>>, <<1, 2, 3, 4>>}

\* selectedProduct: Product | undefined, with or without the initial value
\* `= this.products[0]`
InitialSelections == {Undefined, ObjRef(1)}

(***************************************************************************)
(* JavaScript essentials: declarations and nullish coalescing              *)
(***************************************************************************)
\* a JavaScript number value that is not NaN, and NaN
JsNumber(n) == [tag |-> "number", ref |-> 0, items |-> <<n>>]
JsNaN == [tag |-> "NaN", ref |-> 0, items |-> <<>>]

\* the values `qty` is given: not set, null, and numbers, zero and NaN included
Qtys == {Undefined, Null, JsNaN} \cup {JsNumber(n) : n \in 0..3}

\* ToBoolean of the condition of `qty ? qty : 1`: undefined, null, 0 and NaN
\* are falsy, every other number is truthy
ToBoolean(v) ==
  CASE v.tag = "number" -> v.items[1] # 0
    [] v.tag \in {"undefined", "null", "NaN"} -> FALSE
    [] OTHER -> TRUE

\* qty ? qty : 1
Ternary(q) == IF ToBoolean(q) THEN q ELSE JsNumber(1)

\* qty ?? 1: the right operand only for null and undefined
NullishCoalescing(q) == IF q.tag \in {"undefined", "null"} THEN JsNumber(1) ELSE q

\* const quantity = qty ? qty : 1;
EvalTernary ==
  /\ quantity = NotCalled
  /\ quantity' = Ternary(qty)
  /\ UNCHANGED <<qty, quantityRewritten, x, stmt>>
  /\ UNCHANGED classVars
  /\ UNCHANGED <<pipeVars, numericVars, appVars, ifVars>>

\* const quantity = qty ?? 1;
EvalNullish ==
  /\ quantityRewritten = NotCalled
  /\ quantityRewritten' = NullishCoalescing(qty)
  /\ UNCHANGED <<qty, quantity, x, stmt>>
  /\ UNCHANGED classVars
  /\ UNCHANGED <<pipeVars, numericVars, appVars, ifVars>>

\* a scope that holds no binding named x
Unbound == [tag |-> "unbound", ref |-> 0, items |-> <<>>]

\* The scope a declaration in `block` binds its name in: `var` binds in the
\* enclosing function (or the script), `let` and `const` in the block.
DeclarationScope(keyword, block) == IF keyword = "var" THEN "function" ELSE block

\* The scope a use of x in `block` refers to: the innermost one that binds x.
Resolve(block) == IF x[block] # Unbound THEN block ELSE "function"

\* var x = 20;
VarX ==
  /\ stmt = "var"
  /\ x' = [x EXCEPT ![DeclarationScope("var", "function")] = JsNumber(20)]
  /\ stmt' = "for"
  /\ UNCHANGED <<qty, quantity, quantityRewritten, classVars>>
  /\ UNCHANGED <<pipeVars, numericVars, appVars, ifVars>>

\* for (var x = 0; ...
ForInit ==
  /\ stmt = "for"
  /\ x' = [x EXCEPT ![DeclarationScope("var", "for")] = JsNumber(0)]
  /\ stmt' = "test"
  /\ UNCHANGED <<qty, quantity, quantityRewritten, classVars>>
  /\ UNCHANGED <<pipeVars, numericVars, appVars, ifVars>>

\* ...; x < 10; ...) {}: the empty body runs while the test holds
ForTest ==
  /\ stmt = "test"
  /\ stmt' = IF x[Resolve("for")].items[1] < 10 THEN "update" ELSE "done"
  /\ UNCHANGED <<qty, quantity, quantityRewritten, x, classVars>>
  /\ UNCHANGED <<pipeVars, numericVars, appVars, ifVars>>

\* ...; x++)
ForUpdate ==
  /\ stmt = "update"
  /\ x' = [x EXCEPT ![Resolve("for")] = JsNumber(x[Resolve("for")].items[1] + 1)]
  /\ stmt' = "test"
  /\ UNCHANGED <<qty, quantity, quantityRewritten, classVars>>
  /\ UNCHANGED <<pipeVars, numericVars, appVars, ifVars>>

\* ---- classes
JsBoolean(b) == [tag |-> "boolean", ref |-> 0, items |-> <<b>>]
JsString(s) == [tag |-> "string", ref |-> 0, items |-> s]

\* first and last names: 'A', 'B'
Names == {<<65>>, <<66>>}

\* what a caller passes for isActive: nothing, true or false
IsActiveArgs == {Undefined, JsBoolean(TRUE), JsBoolean(FALSE)}

NoInstance ==
  [class |-> "none", members |-> {}, firstName |-> <<>>, lastName |-> <<>>,
   isActive |-> JsBoolean(FALSE), taxNumber |-> <<>>]

NoArgs == [firstName |-> <<>>, lastName |-> <<>>, isActive |-> Undefined]

UserKeepsInitializer(firstName, lastName, isActive) ==
  [class |-> "User", members |-> {"firstName", "lastName", "#isActive"},
   firstName |-> firstName, lastName |-> lastName,
   isActive |-> IF isActive = Undefined THEN JsBoolean(FALSE) ELSE isActive,
   taxNumber |-> <<>>]

\* class User: the field initializers (firstName = "", lastName = "",
\* #isActive = false), then constructor(firstName, lastName, isActive = true),
\* whose default stands in for an argument that is undefined
User(firstName, lastName, isActive) ==
  LET fields == [class |-> "User", members |-> {"firstName", "lastName", "#isActive"},
                 firstName |-> <<>>, lastName |-> <<>>,
                 isActive |-> JsBoolean(FALSE), taxNumber |-> <<>>]
      isActiveOrDefault == IF isActive = Undefined THEN JsBoolean(TRUE) ELSE isActive
  IN [fields EXCEPT !.firstName = firstName, !.lastName = lastName,
                    !.isActive = isActiveOrDefault]

\* class Customer extends User: super(firstName, lastName), then the field
\* initializer taxNumber = ""
Customer(firstName, lastName) ==
  [User(firstName, lastName, Undefined) EXCEPT
     !.class = "Customer", !.members = @ \cup {"taxNumber"}, !.taxNumber = <<>>]

getFullnameLastFirst(u) == JsString(u.lastName \o <<32>> \o u.firstName)

\* getFullname(): `${this.firstName} ${this.lastName}`
getFullname(u) == JsString(u.firstName \o <<32>> \o u.lastName)

\* get active(): this.#isActive
getActive(u) == u.isActive

\* new User(firstName, lastName) and new User(firstName, lastName, isActive)
NewUser ==
  /\ instance = NoInstance
  /\ \E firstName \in Names, lastName \in Names, isActive \in IsActiveArgs :
       /\ instance' = User(firstName, lastName, isActive)
       /\ ctorArgs' = [firstName |-> firstName, lastName |-> lastName,
                       isActive |-> isActive]
  /\ UNCHANGED <<snippetVars, fullname, active>>
  /\ UNCHANGED <<pipeVars, numericVars, appVars, ifVars>>

\* new Customer(firstName, lastName)
NewCustomer ==
  /\ instance = NoInstance
  /\ \E firstName \in Names, lastName \in Names :
       /\ instance' = Customer(firstName, lastName)
       /\ ctorArgs' = [firstName |-> firstName, lastName |-> lastName,
                       isActive |-> Undefined]
  /\ UNCHANGED <<snippetVars, fullname, active>>
  /\ UNCHANGED <<pipeVars, numericVars, appVars, ifVars>>

\* instance.getFullname()
CallGetFullname ==
  /\ instance # NoInstance
  /\ fullname = NotCalled
  /\ fullname' = getFullname(instance)
  /\ UNCHANGED <<snippetVars, instance, ctorArgs, active>>
  /\ UNCHANGED <<pipeVars, numericVars, appVars, ifVars>>

\* instance.active
ReadActive ==
  /\ instance # NoInstance
  /\ active = NotCalled
  /\ active' = getActive(instance)
  /\ UNCHANGED <<snippetVars, instance, ctorArgs, fullname>>
  /\ UNCHANGED <<pipeVars, numericVars, appVars, ifVars>>

(***************************************************************************)
(* ProductDetailComponent                                                  *)
(***************************************************************************)
Console(hook, message, val) == [hook |-> hook, message |-> message, val |-> val]

\* new SimpleChange(previousValue, currentValue, firstChange)
SimpleChange(previous, current, first) ==
  [previousValue |-> previous, currentValue |-> current, firstChange |-> first]

constructorAfterBinding ==
  Append(log, Console("constructor", "Product:", selectedProduct))

\* constructor(destroyRef): console.log('Product:', this.product())
constructor == Append(log, Console("constructor", "Product:", product))

destroyRefOnDestroyNothing == onDestroyCallbacks

\* destroyRef.onDestroy(() => { console.log('built-in Angular service ...') })
destroyRefOnDestroy ==
  Append(onDestroyCallbacks, "built-in Angular service DestroyRef, same as ngOnDestroy")

\* ngOnDestroy(): void {}: nothing but the call itself
ngOnDestroy == Append(destroyLog, [hook |-> "ngOnDestroy", message |-> ""])

\* ngOnInit(): console.log('Product:', this.product()), reading the input p
ngOnInit(l, p) == Append(l, Console("ngOnInit", "Product:", p))

ngOnChangesAlways(l, change) ==
  l \o << Console("ngOnChanges", "Old value", change.previousValue),
          Console("ngOnChanges", "New value", change.currentValue) >>

\* ngOnChanges(changes): logs the old and the new value unless isFirstChange()
ngOnChanges(l, change) ==
  IF ~change.firstChange
    THEN l \o << Console("ngOnChanges", "Old value", change.previousValue),
                 Console("ngOnChanges", "New value", change.currentValue) >>
    ELSE l

addToCartFirst == Append(added, ObjRef(products[1]))

\* addToCart(): this.added.emit(this.product()!)
addToCart == Append(added, product)

\* get productTitle(): this.product()!.title
productTitle(p) == TitleOf(p)

\* this.product()!.title throws a TypeError when product() is undefined: the
\* non-null assertion is erased by the compiler
productTitleThrows(p) == p.tag # "object"

NothingRendered == [shown |-> FALSE, title |-> <<>>, threw |-> FALSE]

TemplateAlways(p) ==
  [shown |-> TRUE, title |-> IF p.tag = "object" THEN productTitle(p) ELSE <<>>,
   threw |-> productTitleThrows(p)]

\* product-detail.component.html: @if (product()) { {{productTitle}} and the
\* 'Add to cart' button }
Template(p) ==
  IF p.tag = "object"
    THEN [shown |-> TRUE, title |-> productTitle(p), threw |-> productTitleThrows(p)]
    ELSE NothingRendered

(***************************************************************************)
(* ProductListComponent                                                    *)
(***************************************************************************)
\* onAdded(product): alert(`${product.title} added to the cart!`)
onAdded(payload) == TitleOf(payload)

\* product-list.component.html --------------------------------------------
\* The sections of an @if / @else if / @else chain that are rendered: the
\* first branch whose condition holds (the @else branch has condition TRUE).
RECURSIVE FirstTrue(_, _)
FirstTrue(branches, i) ==
  IF i > Len(branches) THEN {}
  ELSE IF branches[i].cond THEN {branches[i].block}
  ELSE FirstTrue(branches, i + 1)

IfElseBoth(n) ==
  (IF n > 0 THEN {[tag |-> "h1", text |-> "Products", n |-> n]} ELSE {})
    \cup {[tag |-> "p", text |-> "No products found!", n |-> 0]}

\* @if (products.length > 0) { <h1>Products (n)</h1> }
\* @else { <p>No products found!</p> }
IfElse(n) ==
  FirstTrue(<< [cond |-> n > 0, block |-> [tag |-> "h1", text |-> "Products", n |-> n]],
               [cond |-> TRUE,
                block |-> [tag |-> "p", text |-> "No products found!", n |-> 0]] >>, 1)

IfElseIfLoadMoreFirst(n) ==
  FirstTrue(<< [cond |-> n = 100,
                block |-> [tag |-> "span", text |-> "Load More", n |-> 0]],
               [cond |-> n > 0, block |-> [tag |-> "h1", text |-> "Products", n |-> n]],
               [cond |-> TRUE,
                block |-> [tag |-> "p", text |-> "No products found!", n |-> 0]] >>, 1)

\* @if (products.length > 0) { <h1> } @else if (products.length === 100)
\* { <span> Click <a>Load More</a> ... </span> } @else { <p> }
IfElseIf(n) ==
  FirstTrue(<< [cond |-> n > 0, block |-> [tag |-> "h1", text |-> "Products", n |-> n]],
               [cond |-> n = 100,
                block |-> [tag |-> "span", text |-> "Load More", n |-> 0]],
               [cond |-> TRUE,
                block |-> [tag |-> "p", text |-> "No products found!", n |-> 0]] >>, 1)

\* the template was not rendered yet
NotRenderedYet == [tag |-> "none", ref |-> 0, items |-> {}]

\* the template with the @else if section is rendered for an array of
\* `length` products
RenderIfElseIf ==
  /\ sections.tag = "none"
  /\ sections' = [tag |-> "sections", ref |-> 0, items |-> IfElseIf(length)]
  /\ UNCHANGED length
  /\ UNCHANGED <<pipeVars, numericVars, appVars, langVars>>

\* @case ('Keyboard') and @case ('Microphone')
Cases ==
  << [value |-> Catalog[1].title, block |-> "keyboard"],
     [value |-> Catalog[2].title, block |-> "microphone"] >>

SwitchFallThrough(title) ==
  {Cases[i].block : i \in {j \in DOMAIN Cases : Cases[j].value = title}}
    \cup {"default"}

\* @switch (product.title) { @case ... @default }: the sections rendered
Switch(title) ==
  FirstTrue([i \in DOMAIN Cases |->
               [cond |-> Cases[i].value = title, block |-> Cases[i].block]]
            \o <<[cond |-> TRUE, block |-> "default"]>>, 1)

\* <li class="pill"> @switch ... {{product.title}} </li> for product object r
ListItem(r) ==
  [ref |-> r, title |-> ProductAt(r).title, icons |-> Switch(ProductAt(r).title)]

ForBlockEmptyAlways(collection) ==
  [items |-> [i \in DOMAIN collection |-> ListItem(collection[i])],
   empty |-> TRUE]

\* @for (product of collection; track product.id) { <li> } @empty { <p> }
ForBlock(collection) ==
  IF Len(collection) = 0
    THEN [items |-> <<>>, empty |-> TRUE]
    ELSE [items |-> [i \in DOMAIN collection |-> ListItem(collection[i])],
          empty |-> FALSE]

\* the view of the product list over the array the template reads
ListTemplate(collection) ==
  [heading |-> IfElse(Len(collection)), for |-> ForBlock(collection)]

NotRendered == [heading |-> {}, for |-> [items |-> <<>>, empty |-> FALSE]]

\* `products | sort`: the template gives the pipe no parameter
PipeArgs == "undefined"

\* the pipe applied to the array object `products`, whose items are product
\* objects; sort reorders the references in place
PipeOutput(refs) ==
  LET arr == [tag |-> "array", ref |-> productsRef,
              items |-> [i \in DOMAIN refs |->
                           [id |-> ProductAt(refs[i]).id,
                            title |-> ProductAt(refs[i]).title,
                            price |-> ProductAt(refs[i]).price,
                            ref |-> refs[i]]]]
      out == transform(arr, PipeArgs)
  IN [i \in DOMAIN out.items |-> out.items[i].ref]

\* the instance of ProductDetailComponent in the list's view
ProductDetailComponent == [tag |-> "component", ref |-> 1, items |-> <<>>]

\* productDetail = viewChild(ProductDetailComponent): the instance once the
\* child was created in the view, undefined before
productDetail == IF pc = "new" THEN Undefined ELSE ProductDetailComponent

ngAfterViewInitBeforeBinding(input) ==
  [child |-> productDetail,
   val |-> IF productDetail = Undefined THEN TypeError ELSE product]

\* ngAfterViewInit(): console.log(this.productDetail()!.product()), where the
\* child's input holds `input`
ngAfterViewInit(input) ==
  [child |-> productDetail,
   val |-> IF productDetail = Undefined THEN TypeError ELSE input]

(***************************************************************************)
(* The host framework: bindings, hooks and change detection                *)
(***************************************************************************)
PipeExecutesAlways(first) == TRUE

PipeExecutesOnChange(first) == first \/ pipeInput # productsRef

\* A pure pipe is executed when the template is first evaluated and when the
\* reference of its input differs from the one it was executed on last; an
\* impure pipe is executed in every change-detection pass.
PipeExecutes(first) == first \/ ~pure \/ pipeInput # productsRef

\* [product]="selectedProduct": the binding is written on the first pass and
\* whenever the bound expression gives another value (another reference).
BindingUpdated(first) == first \/ selectedProduct # product

\* ChangeDetectionStrategy.OnPush: the view is refreshed when it is created,
\* when an input of it was written, or when it was marked for check by an
\* event handled in its own template.
OnPushRefresh(first, updated) == first \/ updated \/ detailDirty

\* The child is created while the parent's view is created: its constructor
\* runs before any input is written.
Construct ==
  /\ pc = "new"
  /\ log' = constructor
  /\ onDestroyCallbacks' = destroyRefOnDestroy
  /\ pc' = "constructed"
  /\ UNCHANGED <<destroyLog, afterViewInit>>
  /\ UNCHANGED <<listVars, product, added, changes, inits, rendered>>
  /\ UNCHANGED <<lastEvent, events, detailDirty, detailChecked>>
  /\ UNCHANGED <<ifVars, langVars, pipeVars, numericVars, tplVars>>

\* One change-detection pass over the parent and the child: the parent's
\* template with its pipe, the input binding, ngOnChanges, ngOnInit on the
\* first pass, then the child's view, and on the first pass the parent's
\* ngAfterViewInit once its view with the child is initialized.
Tick ==
  /\ pc \in {"constructed", "dirty"}
  /\ LET first == pc = "constructed"
         updated == BindingUpdated(first)
         change == SimpleChange(product, selectedProduct, first)
         input == IF updated THEN selectedProduct ELSE product
         logged == IF updated THEN ngOnChanges(log, change) ELSE log
         refresh == OnPushRefresh(first, updated)
     IN /\ product' = input
        /\ changes' = IF updated THEN Append(changes, change) ELSE changes
        /\ log' = IF first THEN ngOnInit(logged, input) ELSE logged
        /\ inits' = IF first THEN inits + 1 ELSE inits
        /\ rendered' = IF refresh THEN Template(input) ELSE rendered
        /\ detailChecked' = refresh
        /\ products' = IF PipeExecutes(first) THEN PipeOutput(products) ELSE products
        /\ pipeRuns' = IF PipeExecutes(first) THEN pipeRuns + 1 ELSE pipeRuns
        /\ pipeInput' = IF PipeExecutes(first) THEN productsRef ELSE pipeInput
        /\ listView' = ListTemplate(products')
        /\ afterViewInit' = IF first THEN ngAfterViewInit(input) ELSE afterViewInit
  /\ detailDirty' = FALSE
  /\ pc' = "idle"
  /\ UNCHANGED <<selectedProduct, alerts, added, lastEvent, events>>
  /\ UNCHANGED <<productsRef, objects, pure, clicked>>
  /\ UNCHANGED <<onDestroyCallbacks, destroyLog>>
  /\ UNCHANGED <<ifVars, langVars, pipeVars, numericVars>>

ItemProductFirst(i) == ObjRef(products[1])

ItemProductCopy(i) == ObjRef(objects + i)

\* the `product` variable of the i-th item of the @for block
ItemProduct(i) == ObjRef(products[i])

\* <li (click)="selectedProduct = product"> of the i-th list item
Select(i) ==
  /\ pc = "idle"
  /\ events < MaxEvents
  /\ selectedProduct' = ItemProduct(i)
  /\ clicked' = ObjRef(listView.for.items[i].ref)
  /\ lastEvent' = "select"
  /\ events' = events + 1
  /\ pc' = "dirty"
  /\ UNCHANGED <<products, alerts, detailVars, detailDirty, detailChecked>>
  /\ UNCHANGED <<productsRef, objects, pure, pipeRuns, pipeInput, listView>>
  /\ UNCHANGED <<ifVars, langVars, pipeVars, numericVars, lifeVars>>

AddToCartClickAnytime ==
  /\ pc = "idle"
  /\ events < MaxEvents
  /\ added' = addToCart
  /\ alerts' = alerts \o [i \in 1..(Len(added') - Len(added)) |->
                            onAdded(added'[Len(added) + i])]
  /\ detailDirty' = TRUE
  /\ lastEvent' = "addToCart"
  /\ events' = events + 1
  /\ pc' = "dirty"
  /\ UNCHANGED <<products, selectedProduct, product, log, changes, inits, rendered>>
  /\ UNCHANGED <<detailChecked>>
  /\ UNCHANGED <<ifVars, langVars, pipeVars, numericVars, tplVars, lifeVars>>

\* <button (click)="addToCart()">: the button exists while the view shows the
\* @if block; (added)="onAdded($event)" runs the parent's handler on each
\* emitted payload; the listener marks the child's view for check.
AddToCartClick ==
  /\ pc = "idle"
  /\ events < MaxEvents
  /\ rendered.shown
  /\ added' = addToCart
  /\ alerts' = alerts \o [i \in 1..(Len(added') - Len(added)) |->
                            onAdded(added'[Len(added) + i])]
  /\ detailDirty' = TRUE
  /\ lastEvent' = "addToCart"
  /\ events' = events + 1
  /\ pc' = "dirty"
  /\ UNCHANGED <<products, selectedProduct, product, log, changes, inits, rendered>>
  /\ UNCHANGED <<detailChecked>>
  /\ UNCHANGED <<ifVars, langVars, pipeVars, numericVars, tplVars, lifeVars>>

\* this.products = [...this.products, { id: 5, title: 'Headphones', ... }]:
\* a new array object with a new product object appended
AssignProducts ==
  /\ pc = "idle"
  /\ events < MaxEvents
  /\ products' = Append(products, objects + 1)
  /\ productsRef' = productsRef + 1
  /\ objects' = objects + 1
  /\ lastEvent' = "assign"
  /\ events' = events + 1
  /\ pc' = "dirty"
  /\ UNCHANGED <<selectedProduct, alerts, detailVars, detailDirty, detailChecked>>
  /\ UNCHANGED <<pure, pipeRuns, pipeInput, listView, clicked>>
  /\ UNCHANGED <<ifVars, langVars, pipeVars, numericVars, lifeVars>>

\* this.products.push({ id: 5, title: 'Headphones', ... }): the same array
\* object gets a new product object at its end
PushProduct ==
  /\ pc = "idle"
  /\ events < MaxEvents
  /\ products' = Append(products, objects + 1)
  /\ objects' = objects + 1
  /\ lastEvent' = "push"
  /\ events' = events + 1
  /\ pc' = "dirty"
  /\ UNCHANGED <<selectedProduct, alerts, detailVars, detailDirty, detailChecked>>
  /\ UNCHANGED <<productsRef, pure, pipeRuns, pipeInput, listView, clicked>>
  /\ UNCHANGED <<ifVars, langVars, pipeVars, numericVars, lifeVars>>

\* The view holding the product detail is removed (an @if turned false, or
\* the router left the page): the component's ngOnDestroy runs, then the
\* callbacks registered with its DestroyRef.
Destroy ==
  /\ pc = "idle"
  /\ destroyLog' = ngOnDestroy \o
       [i \in DOMAIN onDestroyCallbacks |->
          [hook |-> "DestroyRef.onDestroy", message |-> onDestroyCallbacks[i]]]
  /\ pc' = "destroyed"
  /\ UNCHANGED <<listVars, detailVars, tplVars>>
  /\ UNCHANGED <<lastEvent, events, detailDirty, detailChecked>>
  /\ UNCHANGED <<onDestroyCallbacks, afterViewInit>>
  /\ UNCHANGED <<ifVars, langVars, pipeVars, numericVars>>

(***************************************************************************)
(* Specifications                                                          *)
(***************************************************************************)
PipeIdle ==
  /\ value = Undefined
  /\ args = "undefined"
  /\ result = NotCalled
  /\ given = Undefined
NumericIdle ==
  /\ currentClass = ""
  /\ lastKey = <<>>
  /\ defaultPrevented = FALSE
  /\ keypresses = 0
  /\ inputValue = <<>>

\* x is hoisted: bound in the script's scope and undefined before `var x = 20`
LangIdle ==
  /\ qty = Undefined
  /\ quantity = NotCalled
  /\ quantityRewritten = NotCalled
  /\ x = [function |-> Undefined, for |-> Unbound]
  /\ stmt = "var"
  /\ instance = NoInstance
  /\ ctorArgs = NoArgs
  /\ fullname = NotCalled
  /\ active = NotCalled

IfIdle ==
  /\ length = 0
  /\ sections = NotRenderedYet

AppIdle ==
  /\ products = <<1, 2, 3, 4>>
  /\ selectedProduct = Undefined
  /\ alerts = <<>>
  /\ product = Undefined
  /\ added = <<>>
  /\ log = <<>>
  /\ changes = <<>>
  /\ inits = 0
  /\ rendered = NothingRendered
  /\ pc = "new"
  /\ lastEvent = "none"
  /\ events = 0
  /\ detailDirty = FALSE
  /\ detailChecked = FALSE
  /\ productsRef = 1
  /\ objects = Len(Catalog)
  /\ pure = TRUE
  /\ pipeRuns = 0
  /\ pipeInput = 0
  /\ listView = NotRendered
  /\ clicked = Undefined
  /\ onDestroyCallbacks = <<>>
  /\ destroyLog = <<>>
  /\ afterViewInit = NotCalled

\* ---- the pipe on every input
InitSort ==
  /\ value \in {Null, Undefined} \cup {ArrayOf(s) : s \in BoundedSeq(Product, MaxLen)}
  /\ args \in KeyofProduct \cup {"undefined"}
  /\ result = NotCalled
  /\ given = value
  /\ NumericIdle
  /\ AppIdle
  /\ LangIdle
  /\ IfIdle

Transform ==
  /\ result = NotCalled
  /\ result' = transform(value, args)
  /\ value' = IF Truthy(value) THEN transform(value, args) ELSE value
  /\ UNCHANGED <<args, given>>
  /\ UNCHANGED <<numericVars, appVars, langVars, ifVars>>

NextSort == Transform

SpecSort == InitSort /\ [][NextSort]_vars

\* ---- the directive on every sequence of keypresses
InitNumeric == PipeIdle /\ NumericIdle /\ AppIdle /\ LangIdle /\ IfIdle

KeyPress ==
  \E key \in Keys : onKeyPress(key) /\ UNCHANGED <<pipeVars, appVars, langVars, ifVars>>

NextNumeric == KeyPress

SpecNumeric == InitNumeric /\ [][NextNumeric]_vars

\* ---- the snippets of the language chapter on every value of qty
InitLang ==
  /\ IfIdle
  /\ PipeIdle
  /\ NumericIdle
  /\ AppIdle
  /\ qty \in Qtys
  /\ quantity = NotCalled
  /\ quantityRewritten = NotCalled
  /\ x = [function |-> Undefined, for |-> Unbound]
  /\ stmt = "var"
  /\ instance = NoInstance
  /\ ctorArgs = NoArgs
  /\ fullname = NotCalled
  /\ active = NotCalled

NextLang ==
  \/ EvalTernary
  \/ EvalNullish
  \/ VarX
  \/ ForInit
  \/ ForTest
  \/ ForUpdate
  \/ NewUser
  \/ NewCustomer
  \/ CallGetFullname
  \/ ReadActive

SpecLang == InitLang /\ [][NextLang]_vars

\* ---- the @if / @else if / @else chain on every array length
InitIf ==
  /\ PipeIdle
  /\ NumericIdle
  /\ AppIdle
  /\ LangIdle
  /\ length \in 0..MaxProducts
  /\ sections = NotRenderedYet

NextIf == RenderIfElseIf

SpecIf == InitIf /\ [][NextIf]_vars

\* ---- the product list with its product detail
Init ==
  /\ PipeIdle
  /\ NumericIdle
  /\ LangIdle
  /\ IfIdle
  /\ products \in InitialProducts
  /\ selectedProduct \in
       IF products = <<>> THEN {Undefined} ELSE InitialSelections
  /\ alerts = <<>>
  /\ product = Undefined
  /\ added = <<>>
  /\ log = <<>>
  /\ changes = <<>>
  /\ inits = 0
  /\ rendered = NothingRendered
  /\ pc = "new"
  /\ lastEvent = "none"
  /\ events = 0
  /\ detailDirty = FALSE
  /\ detailChecked = FALSE
  /\ productsRef = 1
  /\ objects = Len(Catalog)
  /\ pure \in BOOLEAN
  /\ pipeRuns = 0
  /\ pipeInput = 0
  /\ listView = NotRendered
  /\ clicked = Undefined
  /\ onDestroyCallbacks = <<>>
  /\ destroyLog = <<>>
  /\ afterViewInit = NotCalled

SelectAny == \E i \in 1..Len(products) : Select(i)

Next ==
  \/ Construct
  \/ Tick
  \/ SelectAny
  \/ AddToCartClick
  \/ AssignProducts
  \/ PushProduct
  \/ Destroy

Spec == Init /\ [][Next]_vars

(***************************************************************************)
(* Properties of SortPipe, checked under SpecSort                          *)
(***************************************************************************)
Range(s) == {s[i] : i \in DOMAIN s}

Count(s, e) == Cardinality({i \in DOMAIN s : s[i] = e})

IsPermutation(s, t) ==
  /\ Len(s) = Len(t)
  /\ \A e \in Range(s) \cup Range(t) : Count(s, e) = Count(t, e)

NonDecreasing(s, key) == \A i \in 1..(Len(s) - 1) : ~Less(s[i + 1], s[i], key)

Called == result # NotCalled

\* C1: for a non-null array and a key among title, price and id, transform
\* returns a permutation of the array it was given (same elements, same
\* multiplicities) in which no element is followed by one with a smaller key.
C1_SortedPermutation ==
  (Called /\ Truthy(given) /\ args \in {"title", "price", "id"}) =>
    /\ result.tag = "array"
    /\ IsPermutation(given.items, result.items)
    /\ NonDecreasing(result.items, args)

\* an array of three products was reordered by price
C1_Witness ==
  /\ Called
  /\ args = "price"
  /\ Len(given.items) = 3
  /\ given.items[1].price > given.items[2].price
  /\ given.items[2].price = given.items[3].price
  /\ result.items # given.items

\* C2: called with null or undefined, transform returns an empty array and
\* raises no error.
C2_EmptyOnNoInput ==
  (Called /\ given \in {Null, Undefined}) =>
    /\ result.tag = "array"
    /\ result.items = <<>>

\* the pipe was called with null
C2_Witness == Called /\ given = Null /\ result = EmptyArray

\* C3: without a sort key transform gives what it gives with key 'title',
\* which is what the first version of the pipe (title only) gives.
C3_DefaultKeyIsTitle ==
  (Called /\ args = "undefined") =>
    /\ result = transform(given, "title")
    /\ result = transformTitle(given)

\* the pipe was called without a key on an array that is not sorted by title
\* but is sorted by id
C3_Witness ==
  /\ Called
  /\ args = "undefined"
  /\ Len(given.items) = 3
  /\ NonDecreasing(given.items, "id")
  /\ result.items # given.items

(***************************************************************************)
(* Properties of NumericDirective, checked under SpecNumeric               *)
(***************************************************************************)
\* C4: a keypress is cancelled with preventDefault exactly when the pressed
\* key is not one of the digits '0'..'9'.
C4_RejectsNonDigits ==
  keypresses > 0 => (defaultPrevented <=> ~IsDigitKey(lastKey))

\* C5: after a keypress currentClass is 'valid' if the pressed key is a digit
\* and 'invalid' if it is not.
C5_ClassFollowsKey ==
  keypresses > 0 =>
    currentClass = (IF IsDigitKey(lastKey) THEN "valid" ELSE "invalid")

(***************************************************************************)
(* Properties of the product list and the product detail, checked under    *)
(* Spec                                                                    *)
(***************************************************************************)
\* the step handles a click on 'Add to cart'
AddToCartStep == events' = events + 1 /\ lastEvent' = "addToCart"

\* the step is a change-detection pass after an event
TickStep == pc = "dirty" /\ pc' = "idle"

\* C6: a click on 'Add to cart' makes `added` emit exactly one event, whose
\* payload is the product selected in the list at the time of the click, and
\* onAdded reports the title of that product.
C6_AddedEmitsSelected ==
  [][AddToCartStep =>
       /\ selectedProduct # Undefined
       /\ added' = Append(added, selectedProduct)
       /\ alerts' = Append(alerts, TitleOf(selectedProduct))]_vars

\* two products were added to the cart, each after it was selected
C6_Witness ==
  /\ lastEvent = "addToCart"
  /\ Len(added) = 2
  /\ added[1] # added[2]
  /\ added[2] = ObjRef(3)
  /\ alerts[2] = Catalog[3].title

\* C7: after every change-detection pass the input `product` equals the
\* parent's selectedProduct, and the detail content (title and button) is
\* rendered exactly when that input is set.
C7_InputFollowsSelection ==
  pc = "idle" =>
    /\ product = selectedProduct
    /\ rendered.shown <=> product # Undefined
    /\ rendered.shown => rendered.title = TitleOf(product)

\* the third product is shown after two other selections
C7_Witness ==
  /\ pc = "idle"
  /\ Len(changes) = 3
  /\ product = ObjRef(3)
  /\ rendered = [shown |-> TRUE, title |-> Catalog[3].title, threw |-> FALSE]

LoggedBy(hook) == SelectSeq(log, LAMBDA e : e.hook = hook)

\* C8: the constructor runs before the input is set and reads product() as
\* undefined; ngOnInit runs after it, exactly once, when the input binding
\* has been set, and reads the bound product.
C8_ConstructorThenOnInit ==
  /\ pc = "new" => log = <<>>
  /\ pc = "constructed" =>
       log = <<Console("constructor", "Product:", Undefined)>> /\ inits = 0
  /\ pc \in {"idle", "dirty"} =>
       /\ inits = 1
       /\ Len(LoggedBy("constructor")) = 1
       /\ Len(LoggedBy("ngOnInit")) = 1
       /\ log[1] = Console("constructor", "Product:", Undefined)
       /\ log[2].hook = "ngOnInit"
  /\ (pc = "idle" /\ events = 0) =>
       log[2] = Console("ngOnInit", "Product:", selectedProduct)

\* a detail component bound to the first product has been initialised
C8_Witness ==
  /\ pc = "idle"
  /\ events = 0
  /\ selectedProduct = ObjRef(1)
  /\ log = << Console("constructor", "Product:", Undefined),
              Console("ngOnInit", "Product:", ObjRef(1)) >>

\* what ngOnChanges logs for the changes c[from..Len(c)]
RECURSIVE OldNewFrom(_, _)
OldNewFrom(c, from) ==
  IF from > Len(c) THEN <<>>
  ELSE << Console("ngOnChanges", "Old value", c[from].previousValue),
          Console("ngOnChanges", "New value", c[from].currentValue) >>
       \o OldNewFrom(c, from + 1)

ChangesChained ==
  /\ \A i \in DOMAIN changes : changes[i].firstChange <=> i = 1
  /\ \A i \in 2..Len(changes) :
       /\ changes[i].previousValue = changes[i - 1].currentValue
       /\ changes[i].currentValue # changes[i].previousValue
  /\ LoggedBy("ngOnChanges") = OldNewFrom(changes, 2)

\* C9: ngOnChanges is called once when the input is first set and once for
\* every later change of the bound value, and at no other time; it logs the
\* old and the new value of every change but the first, and the old value of
\* each logged change is the new value of the change before it.
C9_OnChangesPerChange ==
  [][/\ Len(changes') =
          Len(changes) +
            (IF pc = "constructed" /\ pc' = "idle" THEN 1
             ELSE IF TickStep /\ selectedProduct # product THEN 1
             ELSE 0)
     /\ ChangesChained']_vars

\* the input changed twice after it was first set
C9_Witness ==
  /\ pc = "idle"
  /\ Len(changes) = 3
  /\ Len(LoggedBy("ngOnChanges")) = 4
  /\ changes[3].previousValue = ObjRef(2)
  /\ changes[3].currentValue = ObjRef(4)

\* C10: with OnPush, a change-detection pass after an event refreshes the
\* product detail exactly when the reference of its `product` input changed:
\* it does when another product was selected, and it does not when 'Add to
\* cart' was clicked.
C10_OnPushOnlyOnInputChange ==
  [][TickStep => (detailChecked' <=> selectedProduct # product)]_vars


\* ---- the list's template and its pipe
\* the step is any change-detection pass, the first one included
AnyTick == pc \in {"constructed", "dirty"} /\ pc' = "idle"

\* the titles the list shows, in order
ShownTitles(view) == [i \in DOMAIN view.for.items |-> [title |-> view.for.items[i].title]]

ShownRefs(view) == [i \in DOMAIN view.for.items |-> view.for.items[i].ref]

\* C11: a pure sort pipe is executed again only when the reference of its
\* input changed: in the pass after `products` was assigned a new array the
\* pipe runs once more and the list shows the new array sorted; in the pass
\* after Array.push on the same array, or after any other event, it does not
\* run.
C11_PurePipeOnReferenceChange ==
  [][(TickStep /\ pure) =>
       /\ lastEvent = "assign" =>
            /\ pipeRuns' = pipeRuns + 1
            /\ IsPermutation(ShownRefs(listView'), products)
            /\ NonDecreasing(ShownTitles(listView'), "title")
       /\ lastEvent # "assign" =>
            /\ pipeRuns' = pipeRuns
            /\ products' = products]_vars

C11_Witness ==
  /\ pure
  /\ pc = "idle"
  /\ lastEvent = "push"
  /\ productsRef = 2
  /\ pipeRuns = 2
  /\ Len(products) = 6
  /\ ShownRefs(listView) = <<5, 1, 2, 4, 3, 6>>

\* C12: with `pure: false` transform is called in every change-detection
\* pass, whether or not the input array or its reference changed.
C12_ImpurePipeEveryPass ==
  [][(AnyTick /\ ~pure) => pipeRuns' = pipeRuns + 1]_vars

C12_Witness ==
  /\ ~pure
  /\ pc = "idle"
  /\ lastEvent = "select"
  /\ productsRef = 1
  /\ objects = 4
  /\ pipeRuns = 3

\* C13: after every change-detection pass exactly one of the two blocks of
\* the @if / @else is rendered: the heading 'Products (n)' with
\* n = products.length when the array is not empty, the paragraph
\* 'No products found!' when it is empty.
C13_IfElseExactlyOne ==
  pc = "idle" =>
    /\ Cardinality(listView.heading) = 1
    /\ Len(products) > 0 =>
         listView.heading = {[tag |-> "h1", text |-> "Products", n |-> Len(products)]}
    /\ Len(products) = 0 =>
         listView.heading = {[tag |-> "p", text |-> "No products found!", n |-> 0]}

C13_Witness ==
  /\ pc = "idle"
  /\ Len(products) = 1
  /\ listView.heading = {[tag |-> "h1", text |-> "Products", n |-> 1]}

C15_SwitchExactlyOne ==
  pc = "idle" =>
    \A i \in DOMAIN listView.for.items :
      LET item == listView.for.items[i]
      IN /\ Cardinality(item.icons) = 1
         /\ item.title = <<75, 101, 121, 98, 111, 97, 114, 100>> =>
              item.icons = {"keyboard"}
         /\ item.title = <<77, 105, 99, 114, 111, 112, 104, 111, 110, 101>> =>
              item.icons = {"microphone"}
         /\ "default" \in item.icons <=>
              item.title \notin {<<75, 101, 121, 98, 111, 97, 114, 100>>,
                                 <<77, 105, 99, 114, 111, 112, 104, 111, 110, 101>>}

C15_Witness ==
  /\ pc = "idle"
  /\ \E i, j, k \in DOMAIN listView.for.items :
       /\ listView.for.items[i].icons = {"keyboard"}
       /\ listView.for.items[j].icons = {"microphone"}
       /\ listView.for.items[k].icons = {"default"}

\* the step is a click on a list item
SelectStep == events' = events + 1 /\ lastEvent' = "select"

\* C17: a click on a list item sets selectedProduct to the product of that
\* item and changes nothing else of the list (the products array stays as it
\* was); after the following change-detection pass the 'You selected' text
\* shows the title of the product clicked last.
C17_ClickSelects ==
  [][/\ SelectStep =>
          /\ selectedProduct' = clicked'
          /\ clicked' \in {ObjRef(products[i]) : i \in DOMAIN products}
          /\ UNCHANGED <<products, productsRef, objects, alerts, added>>
     /\ (TickStep /\ lastEvent = "select") =>
          /\ selectedProduct' = clicked
          /\ rendered'.shown
          /\ rendered'.title = ProductAt(clicked.ref).title
          /\ products' = products]_vars

C17_Witness ==
  /\ pc = "idle"
  /\ lastEvent = "select"
  /\ events = 2
  /\ Len(changes) = 3
  /\ changes[2].currentValue = ObjRef(2)
  /\ clicked = ObjRef(4)
  /\ rendered.title = Catalog[4].title


\* ---- lifecycle of the views
\* the destroy hooks called so far that are `hook`
DestroyedBy(hook) == SelectSeq(destroyLog, LAMBDA e : e.hook = hook)

\* C16: when the product detail component is destroyed its ngOnDestroy and
\* the callback its constructor registered with DestroyRef.onDestroy are each
\* called once, and neither is called while the component lives.
C16_DestroyHooksOnDestroy ==
  /\ pc = "destroyed" =>
       /\ Len(DestroyedBy("ngOnDestroy")) = 1
       /\ DestroyedBy("DestroyRef.onDestroy") =
            <<[hook |-> "DestroyRef.onDestroy",
               message |-> "built-in Angular service DestroyRef, same as ngOnDestroy"]>>
       /\ Len(destroyLog) = 2
  /\ pc # "destroyed" => destroyLog = <<>>

C16_Witness ==
  /\ pc = "destroyed"
  /\ events = 2
  /\ Len(destroyLog) = 2
  /\ Len(changes) = 2

\* C18: the parent's ngAfterViewInit runs once the child's view is
\* initialized: it has not run before the first change-detection pass ended,
\* the child's ngOnInit ran before it, the viewChild query gives the instance
\* of the child (not undefined), and the product() it reads is the parent's
\* initial selectedProduct, undefined when no initial value was set.
C18_AfterViewInitSeesChild ==
  /\ pc \in {"new", "constructed"} => afterViewInit = NotCalled
  /\ pc \notin {"new", "constructed"} =>
       /\ afterViewInit.child = ProductDetailComponent
       /\ afterViewInit.val = changes[1].currentValue
       /\ afterViewInit.val \in {Undefined, ObjRef(1)}
       /\ inits = 1
  /\ (pc = "idle" /\ events = 0) =>
       /\ afterViewInit.val = selectedProduct
       /\ afterViewInit.val = product

C18_Witness ==
  /\ pc = "idle"
  /\ events = 0
  /\ afterViewInit.child = ProductDetailComponent
  /\ afterViewInit.val = ObjRef(1)


\* ---- the snippets of the language chapter
\* C19: `qty ?? 1` is a rewrite of `qty ? qty : 1`: for every qty, a number,
\* null or undefined, the two statements give quantity the same value.
C19_NullishSameAsTernary ==
  (quantity # NotCalled /\ quantityRewritten # NotCalled) =>
    quantity = quantityRewritten

\* C20: in `var x = 20; for (var x = 0; x < 10; x++) {}` the x of the loop
\* is bound in a scope of its own, and after the loop the x declared outside
\* it still holds 20.
C20_OuterXKeeps20 ==
  stmt = "done" =>
    /\ x["for"] # Unbound
    /\ x["function"] = JsNumber(20)


\* C21: the `active` accessor of a User gives the isActive value its
\* constructor was given, true when none was given, at every time after
\* construction; a Customer, whose constructor hands only the two names to
\* super, has active = true, and its getFullname() gives the first name, a
\* space and the last name.
C21_ActiveAsConstructed ==
  instance # NoInstance =>
    /\ getActive(instance) =
         (IF ctorArgs.isActive = Undefined THEN JsBoolean(TRUE) ELSE ctorArgs.isActive)
    /\ active # NotCalled => active = getActive(instance)
    /\ instance.class = "Customer" =>
         /\ getActive(instance) = JsBoolean(TRUE)
         /\ fullname # NotCalled =>
              fullname = JsString(ctorArgs.firstName \o <<32>> \o ctorArgs.lastName)

C21_Witness ==
  /\ instance.class = "Customer"
  /\ active = JsBoolean(TRUE)
  /\ fullname = JsString(<<65, 32, 66>>)
  /\ "taxNumber" \in instance.members


\* C22: transform sorts in place: for a non-null input it returns the very
\* array it was given, so the caller's array holds the sorted order after the
\* call (it is not left as it was, and the result is no copy), and the array
\* holds the same records with the same fields as before.
C22_SortsInPlace ==
  (Called /\ Truthy(given)) =>
    /\ result.ref = given.ref
    /\ value = result
    /\ value.items = Sort(given.items, DefaultArgs(args))
    /\ IsPermutation(given.items, value.items)

C22_Witness ==
  /\ Called
  /\ args = "id"
  /\ Len(given.items) = 2
  /\ result.ref = given.ref
  /\ value.items # given.items
  /\ value.items = <<given.items[2], given.items[1]>>

\* C23: transform is idempotent per key: applied to its own result with the
\* same key it returns that result again, so executing the pipe once more
\* leaves the order as it is.
C23_Idempotent ==
  Called => transform(result, args) = result

C23_Witness ==
  /\ Called
  /\ args = "title"
  /\ Len(given.items) = 3
  /\ result.items # given.items
  /\ result.items[1].title = result.items[2].title
  /\ result.items[1] # result.items[2]
  /\ transform(result, args) = result

C24_LoadMoreNeverRendered ==
  sections.tag = "sections" =>
    /\ \A b \in sections.items : b.tag # "span"
    /\ length = 100 =>
         sections.items = {[tag |-> "h1", text |-> "Products", n |-> 100]}

C24_Witness ==
  /\ length = 100
  /\ sections.tag = "sections"
  /\ sections.items = {[tag |-> "h1", text |-> "Products", n |-> 100]}


\* ---- selection and the guarded template, checked under Spec
\* C25: after any clicks on list items, 'Add to cart' clicks and executions
\* of the sort pipe, selectedProduct is undefined or one of the product
\* objects of the products array; it is undefined only while no initial
\* value was set and no item was clicked.
C25_SelectedIsListed ==
  /\ selectedProduct # Undefined =>
       /\ selectedProduct.tag = "object"
       /\ selectedProduct.ref \in Range(products)
  /\ selectedProduct = Undefined =>
       /\ clicked = Undefined
       /\ Len(changes) > 0 => changes[1].currentValue = Undefined

C25_Witness ==
  /\ pc = "idle"
  /\ lastEvent = "addToCart"
  /\ events = 3
  /\ pipeRuns = 2
  /\ selectedProduct = ObjRef(5)
  /\ products = <<5, 1, 2, 4, 3>>

\* C26: addToCart and the productTitle getter run only while product() is
\* defined, because the button and the title binding are inside
\* @if (product()): `added` never emits undefined and productTitle never
\* reads the title of an undefined product.
C26_GuardedByIf ==
  /\ \A i \in DOMAIN added : added[i].tag = "object"
  /\ ~rendered.threw
  /\ rendered.shown => product.tag = "object"
  /\ lastEvent = "addToCart" => product.tag = "object"

C26_Witness ==
  /\ pc = "idle"
  /\ Len(changes) = 2
  /\ changes[1].currentValue = Undefined
  /\ Len(added) = 1
  /\ added[1] = product
  /\ rendered.shown
  /\ ~rendered.threw


\* ---- more properties of NumericDirective, checked under SpecNumeric
\* C27: currentClass is always one of '', 'valid' and 'invalid'; it is ''
\* exactly until the first keypress, and after any keypresses it is 'invalid'
\* if and only if the most recent keypress was cancelled with preventDefault.
C27_ClassFollowsDecision ==
  /\ currentClass \in {"", "valid", "invalid"}
  /\ currentClass = "" <=> keypresses = 0
  /\ keypresses > 0 => (currentClass = "invalid" <=> defaultPrevented)
  /\ keypresses > 0 => (currentClass = "valid" <=> ~defaultPrevented)

C27_Witness ==
  /\ keypresses = 3
  /\ lastKey = <<9>>
  /\ currentClass = "valid"
  /\ ~defaultPrevented
  /\ inputValue = <<53>>

\* the step is a keypress
KeyPressStep == keypresses' = keypresses + 1

=============================================================================
